---- MODULE Spec2Model ----
(***************************************************************************)
(* multi_index_lru: an LRU cache (Container) and its TTL variant           *)
(* (ExpirableContainer) built on boost::multi_index_container, whose       *)
(* index 0 is a sequenced index holding the recency order (head = most     *)
(* recently used) followed by the indices the user declares.               *)
(*                                                                         *)
(* One object is modelled; `kind` is its class.  A Container is            *)
(* instantiated as the UserCache of test/container_test.cpp (unique id,    *)
(* unique email, non-unique name), an ExpirableContainer as the            *)
(* MultiNameCache of test/expirable_test.cpp (unique id, non-unique name). *)
(*                                                                         *)
(* Spec, SpecContainer and SpecExpirable take each public method as one    *)
(* step.  SpecLoops, SpecEmplace and SpecThreads take the loops, emplace   *)
(* and find statement by statement, the last with two callers.             *)
(***************************************************************************)
EXTENDS Integers, Sequences, FiniteSets, TLC

\* ---- bounds of the model ------------------------------------------------
MaxCap == 2
MaxTime == 2

\* ---- the values the callers use ----------------------------------------------
Ids == {1, 2, 3}
Emails == {1, 2, 3}
Names == {1, 2}
Times == 0..MaxTime
Durations == {1, 2}
\* a duration whose count() is not positive
NonPositive == {0}

VARIABLES
    kind,        \* "Container" or "ExpirableContainer": the class of the object;
                 \* "aborted" once the process has ended abnormally, "corrupted"
                 \* once undefined behaviour has damaged the object
    container_,  \* the boost::multi_index_container: seq (index 0), idx, node_count
    max_size_,   \* Container::max_size_
    ttl_,        \* ExpirableContainer::ttl_ (0 for a Container)
    now,         \* the reading of clock_type::now()
    last,        \* the last public call: its name, arguments and result
    touch,       \* reference model: last-touch sequence number per stored item
    frame,       \* per caller: the call it is inside, with that call's locals
    mutex        \* the callers' exclusive lock: whether they use one, and its
                 \* owner (0 when nobody holds it)

vars == <<kind, container_, max_size_, ttl_, now, last, touch, frame, mutex>>

\* ---- callers ------------------------------------------------------------------
\* the threads that call into the object
Callers == {1, 2}

\* a caller that is not inside a call
Idle == [op |-> "idle"]

\* the callers use no lock; their lock, released; their lock, held by th
NoMutex == [used |-> FALSE, owner |-> 0]
Unlocked == [used |-> TRUE, owner |-> 0]
LockedBy(th) == [used |-> TRUE, owner |-> th]

\* ---- values ---------------------------------------------------------------
\* struct User { id; email; name }
User == [id : Ids, email : Emails, name : Names]

\* The values a caller hands to an ExpirableContainer: the email is not indexed
\* there.  Id 1 comes with two payloads, ids 1 and 2 share a name.
ExpirableUserValue ==
    { [id |-> 1, email |-> 1, name |-> 1], [id |-> 1, email |-> 2, name |-> 1],
      [id |-> 2, email |-> 1, name |-> 1], [id |-> 3, email |-> 1, name |-> 2] }

\* end(): the result of a lookup that found nothing
NoItem == [end |-> TRUE]

\* TimestampedValue<Value>: the envelope an ExpirableContainer stores; its
\* constructor stamps it with the time of construction
TimestampedValue(v, t) == [value |-> v, last_accessed |-> t]

\* the payload of a stored item (TimestampedValue::value, or the item itself)
Payload(x) == IF "value" \in DOMAIN x THEN x.value ELSE x

\* the key extractor of the index named tag
KeyOf(tag, x) == Payload(x)[tag]

\* indexed_by<...> of the two instantiations, in declaration order
UserCache ==
    << [tag |-> "id", unique |-> TRUE],
       [tag |-> "email", unique |-> TRUE],
       [tag |-> "name", unique |-> FALSE] >>

MultiNameCache ==
    << [tag |-> "id", unique |-> TRUE],
       [tag |-> "name", unique |-> FALSE] >>

IndexSpecifierList == IF kind = "Container" THEN UserCache ELSE MultiNameCache

Tags == {IndexSpecifierList[i].tag : i \in 1..Len(IndexSpecifierList)}

KeysOf(tag) == IF tag = "id" THEN Ids ELSE IF tag = "email" THEN Emails ELSE Names

\* ---- sequences --------------------------------------------------------------
Range(s) == {s[i] : i \in 1..Len(s)}

Remove(s, x) == SelectSeq(s, LAMBDA y : y # x)

Min(S) == CHOOSE m \in S : \A n \in S : m <= n

\* ---- boost::multi_index_container -------------------------------------
\* An ordered index is the sequence of its elements in key order; elements with
\* equal keys stay in insertion order.

\* a default-constructed container
EmptyContainer ==
    [seq |-> <<>>, idx |-> [t \in Tags |-> <<>>], node_count |-> 0]

\* ordered index: link x at the upper bound of its key
link(s, tag, x) ==
    LET n == Cardinality({i \in 1..Len(s) : KeyOf(tag, s[i]) <= KeyOf(tag, x)})
    IN  SubSeq(s, 1, n) \o <<x>> \o SubSeq(s, n + 1, Len(s))

\* lower_bound instead of find: the first element whose key is not less
index_find_lower_bound(c, tag, key) ==
    LET s == c.idx[tag]
        hit == {i \in 1..Len(s) : KeyOf(tag, s[i]) >= key}
    IN  IF hit = {} THEN NoItem ELSE s[Min(hit)]

\* index.find(key): the first element with that key, or end()
index_find(c, tag, key) ==
    LET s == c.idx[tag]
        hit == {i \in 1..Len(s) : KeyOf(tag, s[i]) = key}
    IN  IF hit = {} THEN NoItem ELSE s[Min(hit)]

\* index.equal_range(key): the elements with that key, in index order
index_equal_range(c, tag, key) ==
    SelectSeq(c.idx[tag], LAMBDA y : KeyOf(tag, y) = key)

\* only the first declared index is asked
Colliding_first_only(c, x) ==
    {i \in {1} :
        /\ IndexSpecifierList[i].unique
        /\ \E j \in 1..Len(c.idx[IndexSpecifierList[i].tag]) :
              KeyOf(IndexSpecifierList[i].tag, c.idx[IndexSpecifierList[i].tag][j])
                  = KeyOf(IndexSpecifierList[i].tag, x)}

\* the unique indices (by position) in which x collides with a stored element
Colliding(c, x) ==
    {i \in 1..Len(IndexSpecifierList) :
        /\ IndexSpecifierList[i].unique
        /\ index_find(c, IndexSpecifierList[i].tag, KeyOf(IndexSpecifierList[i].tag, x)) # NoItem}

\* emplace_front taking the veto of the last declared unique index that collides
emplace_front_last_veto(c, x) ==
    IF Colliding(c, x) = {}
    THEN [c |-> [seq |-> <<x>> \o c.seq,
                 idx |-> [t \in DOMAIN c.idx |-> link(c.idx[t], t, x)],
                 node_count |-> c.node_count + 1],
          first |-> x, second |-> TRUE]
    ELSE LET last_veto == CHOOSE i \in Colliding(c, x) : \A j \in Colliding(c, x) : j <= i
             tag == IndexSpecifierList[last_veto].tag
         IN  [c |-> c, first |-> index_find(c, tag, KeyOf(tag, x)), second |-> FALSE]

\* seq_index.emplace_front(x): every index is asked in declaration order; the
\* first unique index holding an equal key vetoes the insertion and its element
\* is returned with second = false.
emplace_front(c, x) ==
    IF Colliding(c, x) = {}
    THEN [c |-> [seq |-> <<x>> \o c.seq,
                 idx |-> [t \in DOMAIN c.idx |-> link(c.idx[t], t, x)],
                 node_count |-> c.node_count + 1],
          first |-> x, second |-> TRUE]
    ELSE LET tag == IndexSpecifierList[Min(Colliding(c, x))].tag
         IN  [c |-> c, first |-> index_find(c, tag, KeyOf(tag, x)), second |-> FALSE]

\* seq_index.relocate(seq_index.begin(), it): move the element to the head
relocate(c, x) == [c EXCEPT !.seq = <<x>> \o Remove(c.seq, x)]

\* erasing one element unlinks its node from every index
erase_it(c, x) ==
    [seq |-> Remove(c.seq, x),
     idx |-> [t \in DOMAIN c.idx |-> Remove(c.idx[t], x)],
     node_count |-> c.node_count - 1]

\* seq_index.pop_back(): erase the tail element
pop_back(c) == erase_it(c, c.seq[Len(c.seq)])

RECURSIVE erase_all(_, _)
erase_all(c, s) == IF s = <<>> THEN c ELSE erase_all(erase_it(c, Head(s)), Tail(s))

\* index.erase(key): erase every element with that key; returns how many
index_erase(c, tag, key) ==
    LET r == index_equal_range(c, tag, key)
    IN  [c |-> erase_all(c, r), count |-> Len(r)]

\* container_.size()
size(c) == c.node_count

\* ---- Container ------------------------------------------------------------
\* Each method is a function of the object's state (c = container_,
\* cap = max_size_) returning the new state and the result.

\* emplace variants with one slip each, used to test the properties below
\* pop_front() instead of pop_back()
Container_emplace_pop_front(c, cap, v) ==
    LET result == emplace_front(c, v)
    IN  IF ~result.second
        THEN [c |-> relocate(result.c, result.first), ret |-> FALSE, it |-> result.first]
        ELSE IF size(result.c) > cap
        THEN [c |-> erase_it(result.c, Head(result.c.seq)), ret |-> TRUE, it |-> result.first]
        ELSE [c |-> result.c, ret |-> TRUE, it |-> result.first]

\* no relocate on a collision
Container_emplace_no_relocate(c, cap, v) ==
    LET result == emplace_front(c, v)
    IN  IF ~result.second
        THEN [c |-> result.c, ret |-> FALSE, it |-> result.first]
        ELSE IF size(result.c) > cap
        THEN [c |-> pop_back(result.c), ret |-> TRUE, it |-> result.first]
        ELSE [c |-> result.c, ret |-> TRUE, it |-> result.first]

\* returns "existing" instead of "inserted"
Container_emplace_returns_existing(c, cap, v) ==
    LET result == emplace_front(c, v)
    IN  IF ~result.second
        THEN [c |-> relocate(result.c, result.first), ret |-> TRUE, it |-> result.first]
        ELSE IF size(result.c) > cap
        THEN [c |-> pop_back(result.c), ret |-> FALSE, it |-> result.first]
        ELSE [c |-> result.c, ret |-> FALSE, it |-> result.first]

\* on a collision the stored element is replaced by the new value
Container_emplace_overwrite(c, cap, v) ==
    LET result == emplace_front(c, v)
    IN  IF ~result.second
        THEN LET r == emplace_front(erase_it(result.c, result.first), v)
             IN  [c |-> IF r.second THEN r.c ELSE relocate(result.c, result.first),
                  ret |-> FALSE, it |-> r.first]
        ELSE IF size(result.c) > cap
        THEN [c |-> pop_back(result.c), ret |-> TRUE, it |-> result.first]
        ELSE [c |-> result.c, ret |-> TRUE, it |-> result.first]

\* emplace that never evicts the item it has just inserted
Container_emplace_keeps_new(c, cap, v) ==
    LET result == emplace_front(c, v)
    IN  IF ~result.second
        THEN [c |-> relocate(result.c, result.first), ret |-> FALSE, it |-> result.first]
        ELSE IF size(result.c) > cap /\ size(result.c) > 1
        THEN [c |-> pop_back(result.c), ret |-> TRUE, it |-> result.first]
        ELSE [c |-> result.c, ret |-> TRUE, it |-> result.first]

\* emplace evicting as soon as the capacity is reached: >= in place of >
Container_emplace_evicts_at_capacity(c, cap, v) ==
    LET result == emplace_front(c, v)
    IN  IF ~result.second
        THEN [c |-> relocate(result.c, result.first), ret |-> FALSE, it |-> result.first]
        ELSE IF size(result.c) >= cap
        THEN [c |-> pop_back(result.c), ret |-> TRUE, it |-> result.first]
        ELSE [c |-> result.c, ret |-> TRUE, it |-> result.first]

Container_emplace(c, cap, v) ==
    LET result == emplace_front(c, v)
    IN  IF ~result.second
        THEN [c |-> relocate(result.c, result.first), ret |-> FALSE, it |-> result.first]
        ELSE IF size(result.c) > cap
        THEN [c |-> pop_back(result.c), ret |-> TRUE, it |-> result.first]
        ELSE [c |-> result.c, ret |-> TRUE, it |-> result.first]

\* find without the relocate
Container_find_no_relocate(c, tag, key) ==
    [c |-> c, ret |-> index_find(c, tag, key)]

\* find relocating to end() instead of begin()
Container_find_relocate_end(c, tag, key) ==
    LET it == index_find(c, tag, key)
    IN  IF it # NoItem
        THEN [c |-> [c EXCEPT !.seq = Remove(c.seq, it) \o <<it>>], ret |-> it]
        ELSE [c |-> c, ret |-> it]

Container_find(c, tag, key) ==
    LET it == index_find(c, tag, key)
    IN  IF it # NoItem
        THEN [c |-> relocate(c, it), ret |-> it]
        ELSE [c |-> c, ret |-> it]

\* contains through a lookup that does not promote
Container_contains_no_update(c, tag, key) ==
    [c |-> c, ret |-> (index_find(c, tag, key) # NoItem)]

Container_contains(c, tag, key) ==
    LET r == Container_find(c, tag, key)
    IN  [c |-> r.c, ret |-> (r.ret # NoItem)]

\* erase removing one element: erase(find(key)) instead of erase(key)
Container_erase_first(c, tag, key) ==
    LET it == index_find(c, tag, key)
    IN  [c |-> IF it = NoItem THEN c ELSE erase_it(c, it), ret |-> (it # NoItem)]

\* erase unlinking the elements from the named index only
Container_erase_index_only(c, tag, key) ==
    [c |-> [c EXCEPT !.idx[tag] = SelectSeq(c.idx[tag], LAMBDA y : KeyOf(tag, y) # key)],
     ret |-> (Len(index_equal_range(c, tag, key)) > 0)]

\* erase reporting count >= 0
Container_erase_always_true(c, tag, key) ==
    [c |-> index_erase(c, tag, key).c, ret |-> TRUE]

Container_erase(c, tag, key) ==
    LET r == index_erase(c, tag, key)
    IN  [c |-> r.c, ret |-> (r.count > 0)]

\* set_capacity without the eviction loop
Container_set_capacity_no_evict(c, new_capacity) == c

\* set_capacity evicting down to below the capacity: >= in place of >
RECURSIVE Container_set_capacity_evicts_at_capacity(_, _)
Container_set_capacity_evicts_at_capacity(c, new_capacity) ==
    IF size(c) >= new_capacity /\ size(c) > 0
    THEN Container_set_capacity_evicts_at_capacity(pop_back(c), new_capacity)
    ELSE c

\* set_capacity evicting at the head: pop_front() instead of pop_back()
RECURSIVE Container_set_capacity_pop_front(_, _)
Container_set_capacity_pop_front(c, new_capacity) ==
    IF size(c) > new_capacity
    THEN Container_set_capacity_pop_front(erase_it(c, Head(c.seq)), new_capacity)
    ELSE c

RECURSIVE Container_set_capacity(_, _)
Container_set_capacity(c, new_capacity) ==
    IF size(c) > new_capacity
    THEN Container_set_capacity(pop_back(c), new_capacity)
    ELSE c

\* clear sparing the most recently used item
Container_clear_keeps_head(c) ==
    IF c.seq = <<>> THEN c
    ELSE [seq |-> <<Head(c.seq)>>,
          idx |-> [t \in DOMAIN c.idx |-> <<Head(c.seq)>>],
          node_count |-> 1]

Container_clear(c) == [seq |-> <<>>, idx |-> [t \in DOMAIN c.idx |-> <<>>], node_count |-> 0]

\* ---- reference model of recency ------------------------------------------
\* Every stored item carries the sequence number of its last touch; only the
\* order of the numbers matters, so they are kept as ranks 1..n.
Touched(t, stored, x) ==
    LET top == Cardinality(DOMAIN t) + 1
        t1 == [y \in stored |-> IF y = x \/ y \notin DOMAIN t THEN top ELSE t[y]]
    IN  [y \in stored |-> Cardinality({z \in stored : t1[z] <= t1[y]})]

\* the item a colliding emplace touches: the stored item with the same key in
\* the first declared unique index that has one
Collider(c, v) ==
    LET hits == {x \in Range(c.seq) : \E i \in 1..Len(IndexSpecifierList) :
                    /\ IndexSpecifierList[i].unique
                    /\ KeyOf(IndexSpecifierList[i].tag, x) = KeyOf(IndexSpecifierList[i].tag, v)}
    IN  IF hits = {} THEN NoItem
        ELSE IF \E x \in hits : KeyOf("id", x) = KeyOf("id", v)
        THEN CHOOSE x \in hits : KeyOf("id", x) = KeyOf("id", v)
        ELSE CHOOSE x \in hits : TRUE

\* ---- actions: Container ---------------------------------------------------
\* the record of a call: the method, the index it named, the value it was given
\* (emplace), its result, and the size() it started from
Call(op, tag, arg, ret) ==
    [op |-> op, tag |-> tag, arg |-> arg, ret |-> ret, n |-> size(container_)]

emplace(v) ==
    /\ kind = "Container"
    /\ LET r == Container_emplace(container_, max_size_, v)
           x == IF Collider(container_, v) = NoItem THEN v ELSE Collider(container_, v)
       IN  /\ container_' = r.c
           /\ last' = Call("emplace", "", v, r.ret)
           /\ touch' = Touched(touch, Range(r.c.seq), x)
    /\ UNCHANGED <<kind, max_size_, ttl_, now, frame, mutex>>

find(tag, key) ==
    /\ kind = "Container"
    /\ LET r == Container_find(container_, tag, key)
       IN  /\ container_' = r.c
           /\ last' = Call("find", tag, NoItem, r.ret)
           /\ touch' = Touched(touch, Range(r.c.seq), r.ret)
    /\ UNCHANGED <<kind, max_size_, ttl_, now, frame, mutex>>

contains(tag, key) ==
    /\ kind = "Container"
    /\ LET r == Container_contains(container_, tag, key)
       IN  /\ container_' = r.c
           /\ last' = Call("contains", tag, NoItem, r.ret)
           /\ touch' = Touched(touch, Range(r.c.seq), index_find(container_, tag, key))
    /\ UNCHANGED <<kind, max_size_, ttl_, now, frame, mutex>>

erase(tag, key) ==
    /\ kind = "Container"
    /\ LET r == Container_erase(container_, tag, key)
       IN  /\ container_' = r.c
           /\ last' = Call("erase", tag, NoItem, r.ret)
           /\ touch' = Touched(touch, Range(r.c.seq), NoItem)
    /\ UNCHANGED <<kind, max_size_, ttl_, now, frame, mutex>>

set_capacity(new_capacity) ==
    /\ kind = "Container"
    /\ max_size_' = new_capacity
    /\ container_' = Container_set_capacity(container_, new_capacity)
    /\ last' = Call("set_capacity", "", NoItem, TRUE)
    /\ touch' = Touched(touch, Range(container_'.seq), NoItem)
    /\ UNCHANGED <<kind, ttl_, now, frame, mutex>>

clear ==
    /\ kind = "Container"
    /\ container_' = Container_clear(container_)
    /\ last' = Call("clear", "", NoItem, TRUE)
    /\ touch' = Touched(touch, {}, NoItem)
    /\ UNCHANGED <<kind, max_size_, ttl_, now, frame, mutex>>

\* ---- ExpirableContainer --------------------------------------------------
\* The methods take the wrapped Container's state (c, cap), ttl_ and the
\* reading t of clock_type::now().

\* it->last_accessed = t: the node is modified in place, so every index sees it
set_last_accessed(c, x, t) ==
    LET y == [x EXCEPT !.last_accessed = t]
        upd(s) == [i \in 1..Len(s) |-> IF s[i] = x THEN y ELSE s[i]]
    IN  [c EXCEPT !.seq = upd(c.seq), !.idx = [tg \in DOMAIN c.idx |-> upd(c.idx[tg])]]

\* an item is taken as expired from last_accessed + ttl_ on
Expired_inclusive(x, ttl, t) == t >= x.last_accessed + ttl

\* now > it->last_accessed + ttl_
Expired(x, ttl, t) == t > x.last_accessed + ttl

\* the timestamp refreshed without the move to the front
Refresh_no_relocate(c, x, t) == set_last_accessed(c, x, t)

\* refresh the timestamp and move to the front
Refresh(c, x, t) == relocate(set_last_accessed(c, x, t), [x EXCEPT !.last_accessed = t])

\* emplace promoting the colliding item without stamping it
ExpirableContainer_emplace_no_stamp(c, cap, v, t) ==
    LET result == emplace_front(c, TimestampedValue(v, t))
    IN  IF ~result.second
        THEN [c |-> relocate(result.c, result.first), ret |-> FALSE, it |-> result.first]
        ELSE IF size(result.c) > cap
        THEN [c |-> pop_back(result.c), ret |-> TRUE, it |-> result.first]
        ELSE [c |-> result.c, ret |-> TRUE, it |-> result.first]

ExpirableContainer_emplace(c, cap, v, t) ==
    LET result == emplace_front(c, TimestampedValue(v, t))
    IN  IF ~result.second
        THEN [c |-> Refresh(result.c, result.first, t), ret |-> FALSE,
              it |-> [result.first EXCEPT !.last_accessed = t]]
        ELSE IF size(result.c) > cap
        THEN [c |-> pop_back(result.c), ret |-> TRUE, it |-> result.first]
        ELSE [c |-> result.c, ret |-> TRUE, it |-> result.first]

\* find promoting a live item without stamping it
ExpirableContainer_find_no_stamp(c, ttl, tag, key, t) ==
    LET it == index_find(c, tag, key)
    IN  IF it # NoItem
        THEN IF Expired(it, ttl, t)
             THEN [c |-> erase_it(c, it), ret |-> NoItem]
             ELSE [c |-> relocate(c, it), ret |-> it]
        ELSE [c |-> c, ret |-> it]

\* find erasing by key (index.erase(key)) instead of by iterator
ExpirableContainer_find_erase_key(c, ttl, tag, key, t) ==
    LET it == index_find(c, tag, key)
    IN  IF it # NoItem
        THEN IF Expired(it, ttl, t)
             THEN [c |-> index_erase(c, tag, key).c, ret |-> NoItem]
             ELSE [c |-> Refresh(c, it, t), ret |-> [it EXCEPT !.last_accessed = t]]
        ELSE [c |-> c, ret |-> it]

ExpirableContainer_find(c, ttl, tag, key, t) ==
    LET it == index_find(c, tag, key)
    IN  IF it # NoItem
        THEN IF Expired(it, ttl, t)
             THEN [c |-> erase_it(c, it), ret |-> NoItem]
             ELSE [c |-> Refresh(c, it, t), ret |-> [it EXCEPT !.last_accessed = t]]
        ELSE [c |-> c, ret |-> it]

\* Container::find_no_update, which container.hpp does not show: the lookup of
\* find without the relocate
Container_find_no_update(c, tag, key) == [c |-> c, ret |-> index_find(c, tag, key)]

\* find_no_update handing the call to Container::find
ExpirableContainer_find_no_update_promotes(c, tag, key) == Container_find(c, tag, key)

ExpirableContainer_find_no_update(c, tag, key) == Container_find_no_update(c, tag, key)

\* the loop leaving at the first expired element, as find does
RECURSIVE equal_range_loop_stops(_, _, _, _)
equal_range_loop_stops(c, s, ttl, t) ==
    IF s = <<>> THEN [c |-> c, changed |-> FALSE]
    ELSE IF Expired(Head(s), ttl, t)
    THEN [c |-> erase_it(c, Head(s)), changed |-> TRUE]
    ELSE equal_range_loop_stops(Refresh(c, Head(s), t), Tail(s), ttl, t)

\* the while loop of equal_range over the elements [it, range.second)
RECURSIVE equal_range_loop(_, _, _, _)
equal_range_loop(c, s, ttl, t) ==
    IF s = <<>> THEN [c |-> c, changed |-> FALSE]
    ELSE IF Expired(Head(s), ttl, t)
    THEN [c |-> equal_range_loop(erase_it(c, Head(s)), Tail(s), ttl, t).c, changed |-> TRUE]
    ELSE equal_range_loop(Refresh(c, Head(s), t), Tail(s), ttl, t)

ExpirableContainer_equal_range(c, ttl, tag, key, t) ==
    LET range == index_equal_range(c, tag, key)
        r == equal_range_loop(c, range, ttl, t)
    IN  [c |-> r.c,
         ret |-> IF r.changed
                 THEN index_equal_range(r.c, tag, key)
                 ELSE [i \in 1..Len(range) |-> [range[i] EXCEPT !.last_accessed = t]]]

\* Container::equal_range_no_update, which container.hpp does not show
Container_equal_range_no_update(c, tag, key) ==
    [c |-> c, ret |-> index_equal_range(c, tag, key)]

ExpirableContainer_equal_range_no_update(c, tag, key) ==
    Container_equal_range_no_update(c, tag, key)

ExpirableContainer_contains(c, ttl, tag, key, t) ==
    LET r == ExpirableContainer_find(c, ttl, tag, key, t)
    IN  [c |-> r.c, ret |-> (r.ret # NoItem)]

\* erase that reports an item past its TTL as not found
ExpirableContainer_erase_checks_ttl(c, tag, key) ==
    LET r == Container_erase(c, tag, key)
    IN  [c |-> r.c,
         ret |-> \E x \in Range(index_equal_range(c, tag, key)) : ~Expired(x, ttl_, now)]

ExpirableContainer_erase(c, tag, key) == Container_erase(c, tag, key)

ExpirableContainer_set_capacity(c, new_capacity) == Container_set_capacity(c, new_capacity)

ExpirableContainer_clear(c) == Container_clear(c)

\* cleanup_expired looking at the tail once: an if in place of the while
\* the sweep taking an item as expired from last_accessed + ttl_ on: >= for >
RECURSIVE ExpirableContainer_cleanup_expired_inclusive(_, _, _)
ExpirableContainer_cleanup_expired_inclusive(c, ttl, t) ==
    IF c.seq # <<>> /\ t >= c.seq[Len(c.seq)].last_accessed + ttl
    THEN ExpirableContainer_cleanup_expired_inclusive(pop_back(c), ttl, t)
    ELSE c

\* the sweep stamping the survivors as it goes
RECURSIVE ExpirableContainer_cleanup_expired_stamps(_, _, _)
ExpirableContainer_cleanup_expired_stamps(c, ttl, t) ==
    IF c.seq # <<>> /\ Expired(c.seq[Len(c.seq)], ttl, t)
    THEN ExpirableContainer_cleanup_expired_stamps(pop_back(c), ttl, t)
    ELSE IF c.seq # <<>>
    THEN set_last_accessed(c, c.seq[Len(c.seq)], t)
    ELSE c

ExpirableContainer_cleanup_expired_once(c, ttl, t) ==
    IF c.seq # <<>> /\ Expired(c.seq[Len(c.seq)], ttl, t)
    THEN pop_back(c)
    ELSE c

RECURSIVE ExpirableContainer_cleanup_expired(_, _, _)
ExpirableContainer_cleanup_expired(c, ttl, t) ==
    IF c.seq # <<>> /\ Expired(c.seq[Len(c.seq)], ttl, t)
    THEN ExpirableContainer_cleanup_expired(pop_back(c), ttl, t)
    ELSE c

\* ---- actions: ExpirableContainer -------------------------------------------
expirable_emplace(v) ==
    /\ kind = "ExpirableContainer"
    /\ LET r == ExpirableContainer_emplace(container_, max_size_, v, now)
       IN  /\ container_' = r.c
           /\ last' = Call("emplace", "", v, r.ret)
    /\ UNCHANGED <<kind, max_size_, ttl_, now, touch, frame, mutex>>

expirable_find(tag, key) ==
    /\ kind = "ExpirableContainer"
    /\ LET r == ExpirableContainer_find(container_, ttl_, tag, key, now)
       IN  /\ container_' = r.c
           /\ last' = Call("find", tag, NoItem, r.ret)
    /\ UNCHANGED <<kind, max_size_, ttl_, now, touch, frame, mutex>>

expirable_find_no_update(tag, key) ==
    /\ kind = "ExpirableContainer"
    /\ LET r == ExpirableContainer_find_no_update(container_, tag, key)
       IN  /\ container_' = r.c
           /\ last' = Call("find_no_update", tag, NoItem, r.ret)
    /\ UNCHANGED <<kind, max_size_, ttl_, now, touch, frame, mutex>>

expirable_equal_range(tag, key) ==
    /\ kind = "ExpirableContainer"
    /\ LET r == ExpirableContainer_equal_range(container_, ttl_, tag, key, now)
       IN  /\ container_' = r.c
           /\ last' = Call("equal_range", tag, NoItem, r.ret)
    /\ UNCHANGED <<kind, max_size_, ttl_, now, touch, frame, mutex>>

expirable_equal_range_no_update(tag, key) ==
    /\ kind = "ExpirableContainer"
    /\ LET r == ExpirableContainer_equal_range_no_update(container_, tag, key)
       IN  /\ container_' = r.c
           /\ last' = Call("equal_range_no_update", tag, NoItem, r.ret)
    /\ UNCHANGED <<kind, max_size_, ttl_, now, touch, frame, mutex>>

expirable_contains(tag, key) ==
    /\ kind = "ExpirableContainer"
    /\ LET r == ExpirableContainer_contains(container_, ttl_, tag, key, now)
       IN  /\ container_' = r.c
           /\ last' = Call("contains", tag, NoItem, r.ret)
    /\ UNCHANGED <<kind, max_size_, ttl_, now, touch, frame, mutex>>

expirable_erase(tag, key) ==
    /\ kind = "ExpirableContainer"
    /\ LET r == ExpirableContainer_erase(container_, tag, key)
       IN  /\ container_' = r.c
           /\ last' = Call("erase", tag, NoItem, r.ret)
    /\ UNCHANGED <<kind, max_size_, ttl_, now, touch, frame, mutex>>

expirable_set_capacity(new_capacity) ==
    /\ kind = "ExpirableContainer"
    /\ max_size_' = new_capacity
    /\ container_' = ExpirableContainer_set_capacity(container_, new_capacity)
    /\ last' = Call("set_capacity", "", NoItem, TRUE)
    /\ UNCHANGED <<kind, ttl_, now, touch, frame, mutex>>

expirable_clear ==
    /\ kind = "ExpirableContainer"
    /\ container_' = ExpirableContainer_clear(container_)
    /\ last' = Call("clear", "", NoItem, TRUE)
    /\ UNCHANGED <<kind, max_size_, ttl_, now, touch, frame, mutex>>

cleanup_expired ==
    /\ kind = "ExpirableContainer"
    /\ container_' = ExpirableContainer_cleanup_expired(container_, ttl_, now)
    /\ last' = Call("cleanup_expired", "", NoItem, TRUE)
    /\ UNCHANGED <<kind, max_size_, ttl_, now, touch, frame, mutex>>

\* set_ttl that also restarts the TTL of every stored item
set_ttl_restamps(new_ttl) ==
    /\ kind = "ExpirableContainer"
    /\ new_ttl > 0
    /\ ttl_' = new_ttl
    /\ container_' =
          [seq |-> [i \in 1..Len(container_.seq) |->
                        [container_.seq[i] EXCEPT !.last_accessed = now]],
           idx |-> [t \in DOMAIN container_.idx |->
                        [i \in 1..Len(container_.idx[t]) |->
                            [container_.idx[t][i] EXCEPT !.last_accessed = now]]],
           node_count |-> container_.node_count]
    /\ last' = Call("set_ttl", "", NoItem, TRUE)
    /\ UNCHANGED <<kind, max_size_, now, touch, frame, mutex>>

\* set_ttl sweeping out the items that are past the TTL in force
set_ttl_reaps(new_ttl) ==
    /\ kind = "ExpirableContainer"
    /\ new_ttl > 0
    /\ ttl_' = new_ttl
    /\ container_' = erase_all(container_, SelectSeq(container_.seq, LAMBDA y : Expired(y, ttl_, now)))
    /\ last' = Call("set_ttl", "", NoItem, TRUE)
    /\ UNCHANGED <<kind, max_size_, now, touch, frame, mutex>>

\* assert(ttl.count() > 0 && "TTL must be positive"): a positive ttl passes; on
\* any other the outcome is the build's: the assert fails and the process
\* aborts, or (NDEBUG) the assert is compiled out and the call goes on
ttl_positive(ttl) == IF ttl > 0 THEN {"passes"} ELSE {"aborts", "passes"}

set_ttl(new_ttl) ==
    /\ kind = "ExpirableContainer"
    /\ \E outcome \in ttl_positive(new_ttl) :
          IF outcome = "aborts"
          THEN /\ kind' = "aborted"
               /\ ttl_' = ttl_
               /\ last' = Call("set_ttl", "", NoItem, FALSE)
          ELSE /\ kind' = kind
               /\ ttl_' = new_ttl
               /\ last' = Call("set_ttl", "", NoItem, TRUE)
    /\ UNCHANGED <<container_, max_size_, now, touch, frame, mutex>>

\* time passing with a reaper: expired items vanish as the clock advances
Tick_reaps ==
    /\ kind = "ExpirableContainer"
    /\ now < MaxTime
    /\ now' = now + 1
    /\ container_' = erase_all(container_, SelectSeq(container_.seq, LAMBDA y : Expired(y, ttl_, now + 1)))
    /\ UNCHANGED <<kind, max_size_, ttl_, last, touch, frame, mutex>>

\* the steady clock advances between calls
Tick ==
    /\ kind = "ExpirableContainer"
    /\ now < MaxTime
    /\ now' = now + 1
    /\ UNCHANGED <<kind, container_, max_size_, ttl_, last, touch, frame, mutex>>

\* ---- the loops, one iteration per step ---------------------------------------
\* A call in progress is a frame: the method, its locals, the container and
\* size() it started from (c, n) and the iterations of its loop so far.

\* the record of a call that has returned
Return(f, ret) == [op |-> f.op, tag |-> f.tag, arg |-> NoItem, ret |-> ret, n |-> f.n]

\* set_capacity: max_size_ = new_capacity, then the loop is entered
set_capacity_call(th, new_capacity) ==
    /\ kind = "ExpirableContainer"
    /\ \A o \in Callers : frame[o] = Idle
    /\ max_size_' = new_capacity
    /\ frame' = [frame EXCEPT ![th] =
                    [op |-> "set_capacity", tag |-> "", c |-> container_,
                     n |-> size(container_), iterations |-> 0]]
    /\ UNCHANGED <<kind, container_, ttl_, now, last, touch, mutex>>

\* the loop whose body removes nothing
set_capacity_loop_no_pop(th) ==
    /\ frame[th].op = "set_capacity"
    /\ IF size(container_) > max_size_
       THEN /\ container_' = container_
            /\ frame' = [frame EXCEPT ![th].iterations = @ + 1]
            /\ last' = last
       ELSE /\ container_' = container_
            /\ frame' = [frame EXCEPT ![th] = Idle]
            /\ last' = Return(frame[th], TRUE)
    /\ UNCHANGED <<kind, max_size_, ttl_, now, touch, mutex>>

\* while (container_.size() > max_size_) seq_index.pop_back(): one test of the
\* condition, followed by the body or by the return
set_capacity_loop(th) ==
    /\ frame[th].op = "set_capacity"
    /\ IF size(container_) > max_size_
       THEN /\ container_' = pop_back(container_)
            /\ frame' = [frame EXCEPT ![th].iterations = @ + 1]
            /\ last' = last
       ELSE /\ container_' = container_
            /\ frame' = [frame EXCEPT ![th] = Idle]
            /\ last' = Return(frame[th], TRUE)
    /\ UNCHANGED <<kind, max_size_, ttl_, now, touch, mutex>>

\* cleanup_expired: now is read once, then the loop is entered
cleanup_expired_call(th) ==
    /\ kind = "ExpirableContainer"
    /\ \A o \in Callers : frame[o] = Idle
    /\ frame' = [frame EXCEPT ![th] =
                    [op |-> "cleanup_expired", tag |-> "", c |-> container_,
                     n |-> size(container_), iterations |-> 0, now |-> now]]
    /\ UNCHANGED <<kind, container_, max_size_, ttl_, now, last, touch, mutex>>

\* while (!seq_index.empty()): pop the tail if it is expired, else break
cleanup_expired_loop(th) ==
    /\ frame[th].op = "cleanup_expired"
    /\ IF container_.seq # <<>> /\ Expired(container_.seq[Len(container_.seq)], ttl_, frame[th].now)
       THEN /\ container_' = pop_back(container_)
            /\ frame' = [frame EXCEPT ![th].iterations = @ + 1]
            /\ last' = last
       ELSE /\ container_' = container_
            /\ frame' = [frame EXCEPT ![th] = Idle]
            /\ last' = Return(frame[th], TRUE)
    /\ UNCHANGED <<kind, max_size_, ttl_, now, touch, mutex>>

\* equal_range: now is read, range = index.equal_range(key), it = range.first;
\* [it, range.second) is kept as the elements still to be visited
equal_range_call(th, tag, key) ==
    /\ kind = "ExpirableContainer"
    /\ \A o \in Callers : frame[o] = Idle
    /\ frame' = [frame EXCEPT ![th] =
                    [op |-> "equal_range", tag |-> tag, key |-> key, c |-> container_,
                     n |-> size(container_), iterations |-> 0, now |-> now,
                     rest |-> index_equal_range(container_, tag, key),
                     changed |-> FALSE]]
    /\ UNCHANGED <<kind, container_, max_size_, ttl_, now, last, touch, mutex>>

\* while (it != range.second): erase the expired element (it = erase(it)) or
\* refresh it and step on (++it); after the loop the range is looked up again
\* if anything was erased
equal_range_step(th) ==
    /\ frame[th].op = "equal_range"
    /\ LET f == frame[th]
       IN  IF f.rest # <<>>
           THEN /\ container_' = IF Expired(Head(f.rest), ttl_, f.now)
                                 THEN erase_it(container_, Head(f.rest))
                                 ELSE Refresh(container_, Head(f.rest), f.now)
                /\ frame' = [frame EXCEPT ![th].rest = Tail(f.rest),
                                          ![th].changed = f.changed \/ Expired(Head(f.rest), ttl_, f.now),
                                          ![th].iterations = @ + 1]
                /\ last' = last
           ELSE /\ container_' = container_
                /\ frame' = [frame EXCEPT ![th] = Idle]
                /\ last' = Return(f, index_equal_range(container_, f.tag, f.key))
    /\ UNCHANGED <<kind, max_size_, ttl_, now, touch, mutex>>

\* the caller goes on with the call it is inside
Continue(th) ==
    \/ set_capacity_loop(th)
    \/ cleanup_expired_loop(th)
    \/ equal_range_step(th)

\* ---- find, shared by two callers -----------------------------------------------
\* ExpirableContainer::find is a lookup (index.find) followed by a mutation
\* through the iterator it got.  The class takes no lock; callers that share
\* the object either hold one exclusive lock of their own around each call
\* (mutex.used) or use none.

\* the stored elements that are the node an iterator refers to: a node keeps
\* its payload for as long as it is stored
Node(c, it) == {x \in Range(c.seq) : it # NoItem /\ Payload(x) = Payload(it)}

\* an iterator to a node that has been erased: using it is undefined; the
\* process dies, or the container's structure is damaged, or nothing shows
Dangling == {"aborts", "corrupts", "unnoticed"}

\* the lookup entered without taking the callers' lock
find_lookup_no_lock(th, tag, key) ==
    /\ kind = "ExpirableContainer"
    /\ frame[th] = Idle
    /\ mutex \in {NoMutex, Unlocked}
    /\ mutex' = mutex
    /\ frame' = [frame EXCEPT ![th] =
                    [op |-> "find", tag |-> tag, n |-> size(container_),
                     now |-> now, it |-> index_find(container_, tag, key)]]
    /\ UNCHANGED <<kind, container_, max_size_, ttl_, now, last, touch>>

\* now = clock_type::now(); it = index.find(key)
find_lookup(th, tag, key) ==
    /\ kind = "ExpirableContainer"
    /\ frame[th] = Idle
    /\ mutex \in {NoMutex, Unlocked}
    /\ mutex' = IF mutex.used THEN LockedBy(th) ELSE mutex
    /\ frame' = [frame EXCEPT ![th] =
                    [op |-> "find", tag |-> tag, n |-> size(container_),
                     now |-> now, it |-> index_find(container_, tag, key)]]
    /\ UNCHANGED <<kind, container_, max_size_, ttl_, now, last, touch>>

\* if (it != index.end()): erase the node when it is expired, else stamp it and
\* relocate it to the head; then return
find_mutate(th) ==
    /\ frame[th].op = "find"
    /\ mutex \in {NoMutex, LockedBy(th)}
    /\ mutex' = IF mutex.used THEN Unlocked ELSE mutex
    /\ frame' = [frame EXCEPT ![th] = Idle]
    /\ LET f == frame[th]
       IN  IF f.it = NoItem
           THEN /\ container_' = container_
                /\ kind' = kind
                /\ last' = Return(f, NoItem)
           ELSE IF Node(container_, f.it) = {}
           THEN \E outcome \in Dangling :
                   /\ container_' = container_
                   /\ kind' = IF outcome = "aborts" THEN "aborted"
                              ELSE IF outcome = "corrupts" THEN "corrupted" ELSE kind
                   /\ last' = Return(f, NoItem)
           ELSE LET x == CHOOSE y \in Node(container_, f.it) : TRUE
                IN  /\ kind' = kind
                    /\ IF Expired(x, ttl_, f.now)
                       THEN /\ container_' = erase_it(container_, x)
                            /\ last' = Return(f, NoItem)
                       ELSE /\ container_' = Refresh(container_, x, f.now)
                            /\ last' = Return(f, [x EXCEPT !.last_accessed = f.now])
    /\ UNCHANGED <<max_size_, ttl_, now, touch>>

\* ---- emplace, statement by statement --------------------------------------
\* result = emplace_front(CacheItem{Value{args...}}): the item is constructed,
\* stamped, and offered to the indices
emplace_call(th, v) ==
    /\ kind = "ExpirableContainer"
    /\ \A o \in Callers : frame[o] = Idle
    /\ LET result == emplace_front(container_, TimestampedValue(v, now))
       IN  /\ container_' = result.c
           /\ frame' = [frame EXCEPT ![th] =
                           [op |-> "emplace", tag |-> "", n |-> size(container_), v |-> v,
                            first |-> result.first, second |-> result.second]]
    /\ UNCHANGED <<kind, max_size_, ttl_, now, last, touch, mutex>>

\* the second statement checking the TTL of the item that vetoed the insertion:
\* an expired one is erased and the new item stored in its place
emplace_return_checks_ttl(th) ==
    /\ frame[th].op = "emplace"
    /\ LET f == frame[th]
       IN  /\ container_' =
                 IF ~f.second
                 THEN IF Expired(f.first, ttl_, now)
                      THEN emplace_front(erase_it(container_, f.first), TimestampedValue(f.v, now)).c
                      ELSE Refresh(container_, f.first, now)
                 ELSE IF size(container_) > max_size_ THEN pop_back(container_)
                 ELSE container_
           /\ last' = [op |-> "emplace", tag |-> "", arg |-> f.v, ret |-> f.second,
                       n |-> f.n, first |-> f.first, now |-> now]
    /\ frame' = [frame EXCEPT ![th] = Idle]
    /\ UNCHANGED <<kind, max_size_, ttl_, now, touch, mutex>>

\* if (!result.second) the stored item is stamped with clock_type::now() and
\* relocated to the head, else the tail is popped when size() > capacity();
\* the call returns result.first and result.second.  The record of the call
\* keeps the item the iterator referred to and the reading of the clock.
emplace_return(th) ==
    /\ frame[th].op = "emplace"
    /\ LET f == frame[th]
       IN  /\ container_' =
                 IF ~f.second THEN Refresh(container_, f.first, now)
                 ELSE IF size(container_) > max_size_ THEN pop_back(container_)
                 ELSE container_
           /\ last' = [op |-> "emplace", tag |-> "", arg |-> f.v, ret |-> f.second,
                       n |-> f.n, first |-> f.first, now |-> now]
    /\ frame' = [frame EXCEPT ![th] = Idle]
    /\ UNCHANGED <<kind, max_size_, ttl_, now, touch, mutex>>

\* ---- specification --------------------------------------------------------
\* Container(max_size)
InitContainer ==
    /\ kind = "Container"
    /\ container_ = EmptyContainer
    /\ max_size_ \in 0..MaxCap
    /\ ttl_ = 0
    /\ now = 0
    /\ last = Call("new", "", NoItem, TRUE)
    /\ touch = <<>>
    /\ frame = [th \in Callers |-> Idle]
    /\ mutex = NoMutex

\* ExpirableContainer(max_size, ttl)
InitExpirable ==
    /\ ttl_ \in Durations \cup NonPositive
    /\ kind \in {IF outcome = "aborts" THEN "aborted" ELSE "ExpirableContainer" :
                    outcome \in ttl_positive(ttl_)}
    /\ container_ = EmptyContainer
    /\ max_size_ \in 0..MaxCap
    /\ now = 0
    /\ last = Call("new", "", NoItem, TRUE)
    /\ touch = <<>>
    /\ frame = [th \in Callers |-> Idle]
    /\ mutex = NoMutex

NextContainer ==
    \/ \E v \in User : emplace(v)
    \/ \E tag \in Tags : \E key \in KeysOf(tag) : find(tag, key)
    \/ \E tag \in Tags : \E key \in KeysOf(tag) : contains(tag, key)
    \/ \E tag \in Tags : \E key \in KeysOf(tag) : erase(tag, key)
    \/ \E n \in 0..MaxCap : set_capacity(n)
    \/ clear

NextExpirable ==
    \/ \E v \in ExpirableUserValue : expirable_emplace(v)
    \/ \E tag \in Tags : \E key \in KeysOf(tag) : expirable_find(tag, key)
    \/ \E tag \in Tags : \E key \in KeysOf(tag) : expirable_find_no_update(tag, key)
    \/ \E tag \in Tags : \E key \in KeysOf(tag) : expirable_equal_range(tag, key)
    \/ \E tag \in Tags : \E key \in KeysOf(tag) : expirable_equal_range_no_update(tag, key)
    \/ \E tag \in Tags : \E key \in KeysOf(tag) : expirable_contains(tag, key)
    \/ \E tag \in Tags : \E key \in KeysOf(tag) : expirable_erase(tag, key)
    \/ \E n \in 0..MaxCap : expirable_set_capacity(n)
    \/ expirable_clear
    \/ cleanup_expired
    \/ \E d \in Durations \cup NonPositive : set_ttl(d)
    \/ Tick

\* a Container alone
SpecContainer == InitContainer /\ [][NextContainer]_vars

\* an ExpirableContainer alone
SpecExpirable == InitExpirable /\ [][NextExpirable]_vars

\* one caller of an ExpirableContainer, its loops taken one iteration at a time;
\* between calls it stores items and the clock advances
NextLoops ==
    \/ /\ frame[1] = Idle
       /\ \E v \in ExpirableUserValue : expirable_emplace(v)
    \/ Tick
    \/ \E n \in 0..MaxCap : set_capacity_call(1, n)
    \/ cleanup_expired_call(1)
    \/ \E tag \in Tags : \E key \in KeysOf(tag) : equal_range_call(1, tag, key)
    \/ Continue(1)

\* ExpirableContainer(max_size, ttl) with a positive ttl
InitLoops ==
    /\ InitExpirable
    /\ ttl_ \in Durations

\* a call that has begun keeps running: the caller's thread is scheduled
SpecLoops == InitLoops /\ [][NextLoops]_vars /\ WF_vars(Continue(1))

\* ExpirableContainer(max_size, ttl) shared by the callers, with or without a
\* lock of theirs
InitThreads ==
    /\ kind = "ExpirableContainer"
    /\ ttl_ \in Durations
    /\ container_ = EmptyContainer
    /\ max_size_ = MaxCap
    /\ now = 0
    /\ last = Call("new", "", NoItem, TRUE)
    /\ touch = <<>>
    /\ frame = [th \in Callers |-> Idle]
    /\ mutex \in {NoMutex, Unlocked}

\* items are stored while no call is in progress; then the callers look ids
\* up, each find in two steps, as the clock advances
NextThreads ==
    \/ /\ \A th \in Callers : frame[th] = Idle
       /\ \E v \in ExpirableUserValue : expirable_emplace(v)
    \/ Tick
    \/ \E th \in Callers : \E key \in Ids : find_lookup(th, "id", key)
    \/ \E th \in Callers : find_mutate(th)

SpecThreads == InitThreads /\ [][NextThreads]_vars

\* one caller storing and looking up items, emplace taken in its two
\* statements, as the clock advances
NextEmplace ==
    \/ \E v \in ExpirableUserValue : emplace_call(1, v)
    \/ emplace_return(1)
    \/ /\ frame[1] = Idle
       /\ \E tag \in Tags : \E key \in KeysOf(tag) : expirable_find(tag, key)
    \/ Tick

SpecEmplace == InitLoops /\ [][NextEmplace]_vars

\* an object of either class
Init == InitContainer \/ InitExpirable

Next == NextContainer \/ NextExpirable

Spec == Init /\ [][Next]_vars

\* ---- properties -------------------------------------------------------------
Stored == Range(container_.seq)

\* the stored items whose key under tag is key
WithKey(c, tag, key) == {x \in Range(c.seq) : KeyOf(tag, x) = key}

\* the keys an index holds, in index order
Keys(c, tag) == [i \in 1..Len(c.idx[tag]) |-> KeyOf(tag, c.idx[tag][i])]

UniqueTags == {IndexSpecifierList[i].tag : i \in {j \in 1..Len(IndexSpecifierList) : IndexSpecifierList[j].unique}}

\* C1: in every reachable state the recency list and every declared index hold
\* the same items, each once, and size() is the number of those items.
C1_IndexConsistency ==
    /\ Len(container_.seq) = Cardinality(Stored)
    /\ size(container_) = Cardinality(Stored)
    /\ \A t \in DOMAIN container_.idx :
          /\ Range(container_.idx[t]) = Stored
          /\ Len(container_.idx[t]) = Len(container_.seq)

\* an expiry sweep removed some items of an ExpirableContainer and left others
C1_Witness ==
    /\ kind = "ExpirableContainer"
    /\ last.op = "cleanup_expired"
    /\ size(container_) < last.n
    /\ size(container_) >= 1

\* C2: size() <= capacity() in every reachable state, of a Container and of an
\* ExpirableContainer.
C2_SizeWithinCapacity == size(container_) <= max_size_

\* set_capacity was called with a value below the size
C2_Witness ==
    /\ last.op = "set_capacity"
    /\ last.n > max_size_
    /\ size(container_) = max_size_
    /\ max_size_ >= 1

\* C3: no unique index ever holds two items with the same key.
C3_UniqueKeys ==
    \A t \in UniqueTags :
        \A i, j \in 1..Len(container_.idx[t]) :
            KeyOf(t, container_.idx[t][i]) = KeyOf(t, container_.idx[t][j]) => i = j

\* an emplace collided in a Container holding two items
C3_Witness ==
    /\ kind = "Container"
    /\ last.op = "emplace"
    /\ last.ret = FALSE
    /\ size(container_) = 2

\* the least recently touched item of the reference model
LeastRecentlyTouched == CHOOSE x \in DOMAIN touch : \A y \in DOMAIN touch : touch[x] <= touch[y]

\* C4: an emplace into a full Container (capacity >= 1) of an item colliding with
\* nothing removes exactly the least recently touched item from the recency
\* list and from every index, keeps the others in order and stores the new item
\* at the head.
C4_EvictsLeastRecentlyTouched ==
    [][\A v \in {last'.arg} :
        (/\ last'.op = "emplace"
         /\ emplace(v)
         /\ size(container_) = max_size_
         /\ max_size_ >= 1
         /\ Collider(container_, v) = NoItem)
        => /\ container_'.seq = <<v>> \o Remove(container_.seq, LeastRecentlyTouched)
           /\ LeastRecentlyTouched \in Stored
           /\ \A t \in Tags :
                 Range(container_'.idx[t]) = (Range(container_.idx[t]) \ {LeastRecentlyTouched}) \cup {v}
           /\ size(container_') = max_size_]_vars

\* a fresh item was emplaced into a full Container of capacity 2
C4_Witness ==
    /\ kind = "Container"
    /\ last.op = "emplace"
    /\ last.ret = TRUE
    /\ last.n = 2
    /\ max_size_ = 2
    /\ size(container_) = 2

\* C5: iterating a Container from begin() to end() yields the stored items by
\* descending last-touch sequence number of the reference model.
C5_RecencyOrder ==
    kind = "Container" =>
        /\ DOMAIN touch = Stored
        /\ \A i, j \in 1..Len(container_.seq) :
              i < j => touch[container_.seq[i]] > touch[container_.seq[j]]

\* a contains hit in a Container holding two items
C5_Witness ==
    /\ kind = "Container"
    /\ last.op = "contains"
    /\ last.ret = TRUE
    /\ size(container_) = 2

\* C6: Container::find on a present key, through any index, returns a stored
\* item with that key, moves it alone to the head and changes nothing else.
C6_FindHit ==
    [][\A tag \in {last'.tag} : \A key \in KeysOf(tag) :
        (last'.op = "find" /\ find(tag, key) /\ WithKey(container_, tag, key) # {})
        => /\ last'.ret \in WithKey(container_, tag, key)
           /\ container_'.seq = <<last'.ret>> \o Remove(container_.seq, last'.ret)
           /\ container_'.idx = container_.idx
           /\ size(container_') = size(container_)
           /\ max_size_' = max_size_]_vars

\* a find through the non-unique name index hit in a Container holding two items
C6_Witness ==
    /\ kind = "Container"
    /\ last.op = "find"
    /\ last.tag = "name"
    /\ last.ret # NoItem
    /\ size(container_) = 2

\* what C7 says of one emplace of v
C7_Step(v) ==
    /\ last'.ret = (\A t \in UniqueTags : WithKey(container_, t, v[t]) = {})
    /\ last'.ret = FALSE =>
          /\ size(container_') = size(container_)
          /\ \A t \in Tags : Keys(container_', t) = Keys(container_, t)

\* C7: emplace returns true exactly when no stored item has the new item's key
\* in a unique index; when it returns false, size() and the keys held by every
\* index are unchanged.
C7_EmplaceResult ==
    [][\A v \in {last'.arg} :
        (last'.op = "emplace" /\ (emplace(v) \/ expirable_emplace(v))) => C7_Step(v)]_vars

\* an emplace collided in an ExpirableContainer holding two items
C7_Witness ==
    /\ kind = "ExpirableContainer"
    /\ last.op = "emplace"
    /\ last.ret = FALSE
    /\ size(container_) = 2

\* the unique indices in which v collides with a stored item
CollidingTags(v) == {t \in UniqueTags : WithKey(container_, t, v[t]) # {}}

C9_CollisionPromotes ==
    [][\A v \in {last'.arg} : (last'.op = "emplace" /\ emplace(v) /\ CollidingTags(v) # {}) =>
        \E t \in CollidingTags(v) : \E x \in WithKey(container_, t, v[t]) :
            /\ container_'.seq = <<x>> \o Remove(container_.seq, x)
            /\ container_' = Container_find(container_, t, v[t]).c]_vars

\* an emplace collided in a full Container of capacity 2
C9_Witness ==
    /\ kind = "Container"
    /\ last.op = "emplace"
    /\ last.ret = FALSE
    /\ last.n = 2
    /\ max_size_ = 2

\* what C10 says of one erase by (tag, key), but for the lookups that follow
C10_Step(tag, key) ==
    LET hit == WithKey(container_, tag, key)
        keep(s) == SelectSeq(s, LAMBDA y : y \notin hit)
    IN  /\ last'.ret = (hit # {})
        /\ container_'.seq = keep(container_.seq)
        /\ \A t \in Tags : container_'.idx[t] = keep(container_.idx[t])
        /\ size(container_') = size(container_) - Cardinality(hit)

C11_Call(tag, key) ==
    \/ last'.op = "find" /\ (find(tag, key) \/ expirable_find(tag, key))
    \/ last'.op = "contains" /\ (contains(tag, key) \/ expirable_contains(tag, key))
    \/ last'.op = "erase" /\ (erase(tag, key) \/ expirable_erase(tag, key))

\* C11: find, contains and erase by a key no stored item has return end(),
\* false and false, and leave the recency list, every index (with every
\* last_accessed), the capacity and the ttl as they were.
C11_MissChangesNothing ==
    [][\A tag \in {last'.tag} : \A key \in KeysOf(tag) :
        (/\ last'.op \in {"find", "contains", "erase"}
         /\ WithKey(container_, tag, key) = {}
         /\ C11_Call(tag, key))
        => /\ last'.ret = (IF last'.op = "find" THEN NoItem ELSE FALSE)
           /\ container_' = container_
           /\ max_size_' = max_size_
           /\ ttl_' = ttl_]_vars

\* a find missed in an ExpirableContainer that holds items, and removed nothing
C11_Witness ==
    /\ kind = "ExpirableContainer"
    /\ last.op = "find"
    /\ last.ret = NoItem
    /\ size(container_) = last.n
    /\ size(container_) >= 1

\* C12: set_capacity(n) with n < size() keeps exactly the n items at the head of
\* the recency list, in their order, and removes the size() - n items behind
\* them from the list and from every index; afterwards capacity() = n and
\* size() = n.
C12_SetCapacityShrinks ==
    [][\A n \in 0..max_size_' :
        (/\ last'.op = "set_capacity"
         /\ set_capacity(n) \/ expirable_set_capacity(n)
         /\ n < size(container_))
        => LET kept == SubSeq(container_.seq, 1, n)
           IN  /\ container_'.seq = kept
               /\ \A t \in Tags :
                     container_'.idx[t] = SelectSeq(container_.idx[t], LAMBDA y : y \in Range(kept))
               /\ size(container_) - size(container_') = size(container_) - n
               /\ max_size_' = n
               /\ size(container_') = n]_vars

\* set_capacity(1) evicted from a Container that held more than one item
C12_Witness ==
    /\ kind = "Container"
    /\ last.op = "set_capacity"
    /\ last.n >= 2
    /\ max_size_ = 1
    /\ size(container_) = 1

\* what find<Tag>(key) would return and leave behind if called in this state
C13_Find(tag, key) ==
    IF kind = "Container"
    THEN Container_find(container_, tag, key)
    ELSE ExpirableContainer_find(container_, ttl_, tag, key, now)

\* C13: contains<Tag>(key) returns whether find<Tag>(key) in the same state
\* returns something other than end(), and leaves the state that find leaves
\* (promotion; in an ExpirableContainer the erase of an expired item or the
\* refresh of a live one); an ExpirableContainer answers true only when a
\* stored item with the key is not expired.
C13_ContainsIsFind ==
    [][\A tag \in {last'.tag} : \A key \in KeysOf(tag) :
        (last'.op = "contains" /\ (contains(tag, key) \/ expirable_contains(tag, key)))
        => /\ last'.ret = (C13_Find(tag, key).ret # NoItem)
           /\ container_' = C13_Find(tag, key).c
           /\ max_size_' = max_size_
           /\ ttl_' = ttl_
           /\ (kind = "ExpirableContainer" /\ last'.ret) =>
                 \E x \in WithKey(container_, tag, key) : ~Expired(x, ttl_, now)]_vars

\* contains met an expired item in an ExpirableContainer: it answered false and
\* the item is gone
C13_Witness ==
    /\ kind = "ExpirableContainer"
    /\ last.op = "contains"
    /\ last.ret = FALSE
    /\ size(container_) = last.n - 1

\* C14: clear() leaves the recency list and every index empty, so that size()
\* is 0, empty() holds and a find by any key through any index misses, and it
\* leaves capacity() and ttl() as they were.
C14_Clear ==
    [][(last'.op = "clear" /\ (clear \/ expirable_clear))
        => /\ container_'.seq = <<>>
           /\ \A t \in Tags : container_'.idx[t] = <<>>
           /\ size(container_') = 0
           /\ \A t \in Tags : \A key \in KeysOf(t) :
                 /\ Container_find(container_', t, key).ret = NoItem
                 /\ ExpirableContainer_find(container_', ttl_', t, key, now').ret = NoItem
           /\ max_size_' = max_size_
           /\ ttl_' = ttl_]_vars

\* clear emptied an ExpirableContainer that was full at capacity 2
C14_Witness ==
    /\ kind = "ExpirableContainer"
    /\ last.op = "clear"
    /\ last.n = 2
    /\ max_size_ = 2
    /\ size(container_) = 0

\* C15: when the item an ExpirableContainer::find locates is expired
\* (now > last_accessed + ttl), find returns end() and erases that item alone
\* from the recency list and from every index: size() decreases by one and
\* every other item, expired or not, keeps its timestamp and its place.
C15_FindExpired ==
    [][\A tag \in {last'.tag} : \A key \in KeysOf(tag) :
        (/\ last'.op = "find"
         /\ expirable_find(tag, key)
         /\ index_find(container_, tag, key) # NoItem
         /\ Expired(index_find(container_, tag, key), ttl_, now))
        => /\ last'.ret = NoItem
           /\ container_'.seq = Remove(container_.seq, index_find(container_, tag, key))
           /\ \A t \in Tags :
                 container_'.idx[t] = Remove(container_.idx[t], index_find(container_, tag, key))
           /\ size(container_') = size(container_) - 1
           /\ max_size_' = max_size_
           /\ ttl_' = ttl_]_vars

\* a find erased an expired item and left another expired item stored
C15_Witness ==
    /\ kind = "ExpirableContainer"
    /\ last.op = "find"
    /\ last.ret = NoItem
    /\ size(container_) = last.n - 1
    /\ \E x \in Stored : Expired(x, ttl_, now)

\* what C16 says of a find that locates the stored item x
C16_Step(x) ==
    IF now <= x.last_accessed + ttl_
    THEN /\ last'.ret = [x EXCEPT !.last_accessed = now]
         /\ container_'.seq = <<last'.ret>> \o Remove(container_.seq, x)
         /\ \A t \in Tags :
               /\ Len(container_'.idx[t]) = Len(container_.idx[t])
               /\ \A i \in 1..Len(container_.idx[t]) :
                     container_'.idx[t][i] =
                         IF container_.idx[t][i] = x THEN last'.ret ELSE container_.idx[t][i]
    ELSE last'.ret = NoItem

\* C16: an ExpirableContainer::find that locates an item whose last_accessed is
\* at most ttl ago returns it, sets its last_accessed to the current time and
\* moves it to the recency head, changing no other item; one that locates an
\* item whose last_accessed is more than ttl ago reports it absent.  As
\* last_accessed is the time of the last such find, expiry counts from it and
\* not from the insertion.  Through a unique index the item located is the
\* stored item with the key.
C16_FindRefreshes ==
    [][\A tag \in {last'.tag} : \A key \in KeysOf(tag) :
        (/\ last'.op = "find"
         /\ expirable_find(tag, key)
         /\ WithKey(container_, tag, key) # {})
        => /\ index_find(container_, tag, key) \in WithKey(container_, tag, key)
           /\ tag \in UniqueTags => WithKey(container_, tag, key) = {index_find(container_, tag, key)}
           /\ C16_Step(index_find(container_, tag, key))]_vars

\* a find returned an item, now stamped with a current time late enough for an
\* item left alone to have expired
C16_Witness ==
    /\ kind = "ExpirableContainer"
    /\ last.op = "find"
    /\ last.ret # NoItem
    /\ Head(container_.seq) = last.ret
    /\ last.ret.last_accessed = now
    /\ \E x \in Stored : now > x.last_accessed + ttl_

\* C17: find_no_update and equal_range_no_update leave the recency list, every
\* index with every last_accessed, the capacity and the ttl as they were, and
\* return what the index holds under the key without a TTL check: a stored item
\* with the key (all of them for equal_range_no_update), expired or not.  A find
\* that follows therefore sees the item exactly as a find in their place would.
C17_NoUpdate ==
    [][\A tag \in {last'.tag} : \A key \in KeysOf(tag) :
        /\ (last'.op = "find_no_update" /\ expirable_find_no_update(tag, key))
           => /\ container_' = container_
              /\ max_size_' = max_size_
              /\ ttl_' = ttl_
              /\ IF WithKey(container_, tag, key) = {}
                 THEN last'.ret = NoItem
                 ELSE last'.ret \in WithKey(container_, tag, key)
              /\ ExpirableContainer_find(container_', ttl_', tag, key, now')
                    = ExpirableContainer_find(container_, ttl_, tag, key, now)
        /\ (last'.op = "equal_range_no_update" /\ expirable_equal_range_no_update(tag, key))
           => /\ container_' = container_
              /\ max_size_' = max_size_
              /\ ttl_' = ttl_
              /\ Range(last'.ret) = WithKey(container_, tag, key)
              /\ Len(last'.ret) = Cardinality(WithKey(container_, tag, key))
              /\ ExpirableContainer_find(container_', ttl_', tag, key, now')
                    = ExpirableContainer_find(container_, ttl_, tag, key, now)]_vars

\* find_no_update returned an item that is past its TTL and still stored
C17_Witness ==
    /\ kind = "ExpirableContainer"
    /\ last.op = "find_no_update"
    /\ last.ret # NoItem
    /\ last.ret \in Stored
    /\ Expired(last.ret, ttl_, now)

\* what C18 says of one equal_range by (tag, key)
C18_Step(tag, key) ==
    LET hit == WithKey(container_, tag, key)
        live == {x \in hit : now <= x.last_accessed + ttl_}
        refreshed == {[x EXCEPT !.last_accessed = now] : x \in live}
        others(s) == SelectSeq(s, LAMBDA y : KeyOf(tag, y) # key)
        n == Cardinality(live)
    IN  /\ Len(container_'.seq) = n + Len(others(container_.seq))
        /\ Range(SubSeq(container_'.seq, 1, n)) = refreshed
        /\ SubSeq(container_'.seq, n + 1, Len(container_'.seq)) = others(container_.seq)
        /\ \A t \in Tags :
              /\ Range(container_'.idx[t]) = Range(container_'.seq)
              /\ others(container_'.idx[t]) = others(container_.idx[t])
        /\ size(container_') = size(container_) - Cardinality(hit \ live)
        /\ Range(last'.ret) = refreshed
        /\ Len(last'.ret) = n
        /\ Range(last'.ret) = WithKey(container_', tag, key)

\* C18: ExpirableContainer::equal_range<Tag>(key) erases every stored item with
\* the key that is expired, stamps every other stored item with the key with
\* the current time and moves it to the recency head, returns exactly the
\* surviving items with the key as they then are, and leaves the items with
\* other keys stored, unstamped and in their order.
C18_EqualRange ==
    [][\A tag \in {last'.tag} : \A key \in KeysOf(tag) :
        (last'.op = "equal_range" /\ expirable_equal_range(tag, key)) => C18_Step(tag, key)]_vars

\* equal_range on a shared name erased one expired item and returned the other
C18_Witness ==
    /\ kind = "ExpirableContainer"
    /\ last.op = "equal_range"
    /\ last.tag = "name"
    /\ last.n = 2
    /\ size(container_) = 1
    /\ Len(last.ret) = 1
    /\ Head(last.ret) = Head(container_.seq)

\* C19: after cleanup_expired() no stored item has now > last_accessed + ttl;
\* every item that was not expired at the call is still stored, with its
\* timestamp, and the survivors are in their previous order in the recency list
\* and in every index.
C19_CleanupExpired ==
    [][(last'.op = "cleanup_expired" /\ cleanup_expired)
        => /\ \A x \in Range(container_'.seq) : ~(now > x.last_accessed + ttl_)
           /\ container_'.seq =
                 SelectSeq(container_.seq, LAMBDA y : ~(now > y.last_accessed + ttl_))
           /\ \A t \in Tags :
                 container_'.idx[t] =
                     SelectSeq(container_.idx[t], LAMBDA y : ~(now > y.last_accessed + ttl_))
           /\ size(container_') = Len(container_'.seq)
           /\ max_size_' = max_size_
           /\ ttl_' = ttl_]_vars

\* a sweep found both items of a full ExpirableContainer expired
C19_Witness ==
    /\ kind = "ExpirableContainer"
    /\ last.op = "cleanup_expired"
    /\ last.n = 2
    /\ size(container_) = 0

\* the stored items whose payload is no longer stored after the step
C20_Lost == {x \in Stored : \A y \in Range(container_'.seq) : Payload(y) # Payload(x)}

\* C20: a step in which only time passes removes nothing, and an item leaves an
\* ExpirableContainer only in a find, contains, equal_range or erase by one of
\* its keys, in a cleanup_expired, a clear or a set_capacity, or as the tail
\* evicted by an emplace that inserted into a full container; until then it is
\* stored and size() counts it, expired or not.
C20_LazyExpiration ==
    [][/\ now' # now => (container_' = container_ /\ C20_Lost = {})
       /\ size(container_') = Len(container_'.seq)
       /\ C20_Lost # {} =>
             /\ last'.op \in {"find", "contains", "equal_range", "erase",
                              "cleanup_expired", "clear", "set_capacity", "emplace"}
             /\ last'.op \in {"find", "contains", "equal_range", "erase"} =>
                   \E key \in KeysOf(last'.tag) : C20_Lost \subseteq WithKey(container_, last'.tag, key)
             /\ last'.op = "emplace" =>
                   /\ last'.ret = TRUE
                   /\ size(container_) = max_size_
                   /\ C20_Lost \subseteq {container_.seq[Len(container_.seq)]}]_vars

\* two items are stored and counted although both are past their TTL
C20_Witness ==
    /\ kind = "ExpirableContainer"
    /\ now = MaxTime
    /\ Len(container_.seq) = 2
    /\ size(container_) = 2
    /\ \A x \in Stored : Expired(x, ttl_, now)

\* C21: in an ExpirableContainer the last_accessed of an item that stays stored
\* never decreases, and it changes only in an emplace, a find, a contains or an
\* equal_range; an item stored by a step has the current time as last_accessed.
C21_LastAccessed ==
    [][kind = "ExpirableContainer" =>
        \A y \in Range(container_'.seq) :
            /\ \A x \in Stored :
                  Payload(x) = Payload(y) =>
                      /\ y.last_accessed >= x.last_accessed
                      /\ y.last_accessed # x.last_accessed =>
                            /\ last'.op \in {"emplace", "find", "contains", "equal_range"}
                            /\ y.last_accessed = now
            /\ (\A x \in Stored : Payload(x) # Payload(y)) =>
                  /\ last'.op = "emplace"
                  /\ y.last_accessed = now]_vars

\* a colliding emplace stamped the stored item with a time later than that of
\* another stored item
C21_Witness ==
    /\ kind = "ExpirableContainer"
    /\ last.op = "emplace"
    /\ last.ret = FALSE
    /\ Head(container_.seq).last_accessed = now
    /\ \E x \in Stored : x.last_accessed < now

\* C22: a set_ttl(t) that returns leaves ttl() = t and changes nothing else: the
\* recency list, every index and every last_accessed are as before.  The next
\* find measures the old timestamps against t: it reports the item it locates
\* absent exactly when now > last_accessed + t.
C22_SetTtl ==
    [][\A t \in Durations \cup NonPositive :
        (last'.op = "set_ttl" /\ last'.ret = TRUE /\ set_ttl(t))
        => /\ ttl_' = t
           /\ container_' = container_
           /\ max_size_' = max_size_
           /\ \A tag \in Tags : \A key \in KeysOf(tag) :
                 LET x == index_find(container_, tag, key)
                 IN  x # NoItem =>
                        (ExpirableContainer_find(container_', ttl_', tag, key, now').ret = NoItem)
                            = (now > x.last_accessed + t)]_vars

\* set_ttl shortened the TTL below the age of a stored item that the longer
\* TTL kept alive
C22_Witness ==
    /\ kind = "ExpirableContainer"
    /\ last.op = "set_ttl"
    /\ last.ret = TRUE
    /\ ttl_ = 1
    /\ \E x \in Stored : now > x.last_accessed + ttl_ /\ now <= x.last_accessed + 2

\* C23: a non-positive TTL is rejected at construction and at every set_ttl, so
\* that no ExpirableContainer ever has ttl() <= 0.
C23_TtlPositive == kind = "ExpirableContainer" => ttl_ > 0

\* what C24 says of an ExpirableContainer::emplace of v that collides
C24_Collision(v) ==
    \E x \in Stored :
        /\ \E t \in CollidingTags(v) : KeyOf(t, x) = v[t]
        /\ container_'.seq = <<[x EXCEPT !.last_accessed = now]>> \o Remove(container_.seq, x)
        /\ size(container_') = size(container_)
        /\ last'.ret = FALSE

\* C24 as stated: an ExpirableContainer::emplace of a payload colliding with no
\* stored item leaves it stored at the recency head, stamped with the time of
\* the call; one that collides stamps the stored item with the time of the
\* call, moves it to the head, inserts nothing and returns false.
C24_EmplaceStoresAtHead ==
    [][\A v \in {last'.arg} :
        (last'.op = "emplace" /\ expirable_emplace(v)) =>
            IF CollidingTags(v) = {}
            THEN /\ container_'.seq # <<>>
                 /\ Head(container_'.seq) = TimestampedValue(v, now)
                 /\ last'.ret = TRUE
            ELSE C24_Collision(v)]_vars

\* C24 amended: as stated when capacity() >= 1; with capacity 0 the payload that
\* collides with nothing is inserted and evicted within the call, so that
\* nothing is stored, and true is returned.
C24_Emplace ==
    [][\A v \in {last'.arg} :
        (last'.op = "emplace" /\ expirable_emplace(v)) =>
            IF CollidingTags(v) = {}
            THEN /\ last'.ret = TRUE
                 /\ IF max_size_ >= 1
                    THEN /\ container_'.seq # <<>>
                         /\ Head(container_'.seq) = TimestampedValue(v, now)
                         /\ \A t \in Tags : TimestampedValue(v, now) \in Range(container_'.idx[t])
                         /\ Tail(container_'.seq) =
                               SubSeq(container_.seq, 1, Len(container_'.seq) - 1)
                    ELSE container_' = container_ /\ container_.seq = <<>>
            ELSE C24_Collision(v)]_vars

\* a fresh payload was stored at the head of an ExpirableContainer, next to an
\* item stamped earlier
C24_Witness ==
    /\ kind = "ExpirableContainer"
    /\ last.op = "emplace"
    /\ last.ret = TRUE
    /\ size(container_) = 2
    /\ Head(container_.seq) = TimestampedValue(last.arg, now)
    /\ \E x \in Stored : x.last_accessed < now

\* the items stored before an emplace whose payload is not stored after it
C25_Evicted == {x \in Stored : \A y \in Range(container_'.seq) : Payload(y) # Payload(x)}

\* C25: an emplace evicts at most one item, and one only when it inserted the
\* new item and size() then exceeded capacity(); with capacity() >= 1 the item
\* evicted is the previous tail and never the new item, so that after an
\* emplace returning true the new item is the head of the recency list, and
\* the iterator ExpirableContainer::emplace returns refers to a stored item.
C25_EmplaceEvictsAtMostOne ==
    [][\A v \in {last'.arg} :
        (last'.op = "emplace" /\ (emplace(v) \/ expirable_emplace(v)))
        => /\ Cardinality(C25_Evicted) <= 1
           /\ size(container_') >= size(container_)
           /\ C25_Evicted # {} =>
                 /\ last'.ret = TRUE
                 /\ size(container_) + 1 > max_size_
           /\ max_size_ >= 1 =>
                 /\ C25_Evicted \subseteq {container_.seq[i] : i \in {Len(container_.seq)} \ {0}}
                 /\ last'.ret = TRUE =>
                       /\ container_'.seq # <<>>
                       /\ Payload(Head(container_'.seq)) = v
                       /\ \A x \in C25_Evicted : Payload(x) # v
                 /\ kind = "ExpirableContainer" =>
                       ExpirableContainer_emplace(container_, max_size_, v, now).it
                           \in Range(container_'.seq)]_vars

\* an emplace into a full ExpirableContainer of capacity 2 stored the new item
\* at the head and evicted one
C25_Witness ==
    /\ kind = "ExpirableContainer"
    /\ last.op = "emplace"
    /\ last.ret = TRUE
    /\ last.n = 2
    /\ max_size_ = 2
    /\ size(container_) = 2
    /\ Payload(Head(container_.seq)) = last.arg

\* C26: in every reachable state of an ExpirableContainer, last_accessed does
\* not increase from the head of the recency list to its tail.
C26_RecencyFollowsTimestamps ==
    kind # "Container" =>
        \A i, j \in 1..Len(container_.seq) :
            i < j => container_.seq[i].last_accessed >= container_.seq[j].last_accessed

\* a find moved an item to the head, where it carries a later timestamp than
\* the item behind it
C26_Witness ==
    /\ kind = "ExpirableContainer"
    /\ last.op = "find"
    /\ last.ret # NoItem
    /\ Len(container_.seq) = 2
    /\ container_.seq[1] = last.ret
    /\ container_.seq[1].last_accessed > container_.seq[2].last_accessed

\* what find, contains, equal_range (through the unique id index) and
\* cleanup_expired would each make of the stored item x if called now
C27_Verdicts(x) ==
    LET key == KeyOf("id", x)
        found == ExpirableContainer_find(container_, ttl_, "id", key, now)
        range == ExpirableContainer_equal_range(container_, ttl_, "id", key, now)
        swept == ExpirableContainer_cleanup_expired(container_, ttl_, now)
    IN  [find |-> found.ret = NoItem,
         contains |-> ~ExpirableContainer_contains(container_, ttl_, "id", key, now).ret,
         equal_range |-> range.ret = <<>>,
         cleanup_expired |-> \A y \in Range(swept.seq) : Payload(y) # Payload(x),
         refreshed |-> found.ret # NoItem /\ found.ret.last_accessed = now]

\* C27: at every time, find, contains, equal_range and cleanup_expired agree on
\* every stored item, and take it as expired exactly when
\* now > last_accessed + ttl: at now = last_accessed + ttl the item is returned
\* and refreshed by find and kept by cleanup_expired.
C27_StrictExpiry ==
    kind = "ExpirableContainer" =>
        \A x \in Stored :
            LET expired == now > x.last_accessed + ttl_
            IN  /\ C27_Verdicts(x).find = expired
                /\ C27_Verdicts(x).contains = expired
                /\ C27_Verdicts(x).equal_range = expired
                /\ C27_Verdicts(x).cleanup_expired = expired
                /\ C27_Verdicts(x).refreshed = ~expired

\* a sweep removed an item and kept one that is exactly ttl old
C27_Witness ==
    /\ kind = "ExpirableContainer"
    /\ last.op = "cleanup_expired"
    /\ size(container_) < last.n
    /\ ttl_ > 0
    /\ \E x \in Stored : now = x.last_accessed + ttl_

\* C28: in an ExpirableContainer, erase<Tag>(key) returns true whenever an item
\* with the key is stored, expired or not, and removes the items with the key;
\* set_capacity and an overflowing emplace evict from the tail, expired or not;
\* none of them looks at the TTL or changes the last_accessed of an item that
\* stays stored.
C28_NoTtlCheck ==
    [][/\ \A tag \in {last'.tag} : \A key \in KeysOf(tag) :
             (last'.op = "erase" /\ expirable_erase(tag, key)) =>
                /\ last'.ret = (WithKey(container_, tag, key) # {})
                /\ container_'.seq = SelectSeq(container_.seq, LAMBDA y : KeyOf(tag, y) # key)
       /\ \A n \in {max_size_'} :
             (last'.op = "set_capacity" /\ expirable_set_capacity(n)) =>
                container_'.seq = SubSeq(container_.seq, 1, IF n < Len(container_.seq) THEN n ELSE Len(container_.seq))
       /\ \A v \in {last'.arg} :
             (last'.op = "emplace" /\ expirable_emplace(v) /\ last'.ret = TRUE /\ max_size_ >= 1) =>
                Tail(container_'.seq) =
                    SubSeq(container_.seq, 1,
                           IF Len(container_.seq) < max_size_ THEN Len(container_.seq) ELSE max_size_ - 1)]_vars

\* set_capacity evicted from an ExpirableContainer and kept an item that is
\* past its TTL, unstamped; the items evicted from behind it were no younger
C28_Witness ==
    /\ kind = "ExpirableContainer"
    /\ last.op = "set_capacity"
    /\ size(container_) < last.n
    /\ size(container_) >= 1
    /\ \A x \in Stored : Expired(x, ttl_, now)

\* C29: while capacity() is 0 the cache is empty after every operation: the
\* recency list and every index are empty, size() is 0, a find by any key
\* misses, and an emplace, which inserts and evicts its item in the same call,
\* has returned true.
C29_CapacityZero ==
    max_size_ = 0 =>
        /\ container_.seq = <<>>
        /\ \A t \in Tags : container_.idx[t] = <<>>
        /\ size(container_) = 0
        /\ \A t \in Tags : \A key \in KeysOf(t) :
              /\ Container_find(container_, t, key).ret = NoItem
              /\ ExpirableContainer_find(container_, ttl_, t, key, now).ret = NoItem
        /\ last.op = "emplace" => (last.ret = TRUE /\ last.n = 0)

\* an emplace returned true at capacity 0 and left the Container empty
C29_Witness ==
    /\ kind = "Container"
    /\ max_size_ = 0
    /\ last.op = "emplace"
    /\ last.ret = TRUE
    /\ size(container_) = 0

\* C30: set_capacity(n) with n >= size() changes capacity() to n and nothing
\* else: the recency list, every index and every timestamp are as before.  An
\* emplace evicts only when the container is full, that is, when size() would
\* exceed the capacity in force.
C30_SetCapacityKeeps ==
    [][/\ \A n \in {max_size_'} :
             (/\ last'.op = "set_capacity"
              /\ set_capacity(n) \/ expirable_set_capacity(n)
              /\ n >= size(container_))
             => /\ container_' = container_
                /\ max_size_' = n
                /\ ttl_' = ttl_
       /\ \A v \in {last'.arg} :
             (/\ last'.op = "emplace"
              /\ emplace(v) \/ expirable_emplace(v)
              /\ size(container_) < max_size_)
             => \A x \in Stored : \E y \in Range(container_'.seq) : Payload(y) = Payload(x)]_vars

\* set_capacity was called on a full ExpirableContainer with its size as the
\* new capacity, and both items are still stored
C30_Witness ==
    /\ kind = "ExpirableContainer"
    /\ last.op = "set_capacity"
    /\ last.n = 2
    /\ max_size_ = 2
    /\ size(container_) = 2

\* C31: every loop ends.  While a call is inside its loop it has made at most
\* as many iterations as there were stored items when the call began, each
\* iteration of set_capacity and of cleanup_expired has removed exactly one
\* item, each iteration of equal_range has taken one element off the range
\* still to be visited, and what is left of the loop leads to the state the
\* whole call computes; a call in progress always returns.
C31_Progress(f) ==
    CASE f.op = "set_capacity" ->
            /\ size(container_) = f.n - f.iterations
            /\ Container_set_capacity(container_, max_size_) = Container_set_capacity(f.c, max_size_)
      [] f.op = "cleanup_expired" ->
            /\ size(container_) = f.n - f.iterations
            /\ ExpirableContainer_cleanup_expired(container_, ttl_, f.now)
                  = ExpirableContainer_cleanup_expired(f.c, ttl_, f.now)
      [] f.op = "equal_range" ->
            /\ f.iterations + Len(f.rest) = Len(index_equal_range(f.c, f.tag, f.key))
            /\ equal_range_loop(container_, f.rest, ttl_, f.now).c
                  = ExpirableContainer_equal_range(f.c, ttl_, f.tag, f.key, f.now).c
      [] OTHER -> TRUE

C31_Bound ==
    \A th \in Callers :
        frame[th] # Idle => (frame[th].iterations <= frame[th].n /\ C31_Progress(frame[th]))

C31_RunsToCompletion ==
    /\ []C31_Bound
    /\ \A th \in Callers : (frame[th] # Idle) ~> (frame[th] = Idle)

\* set_capacity has removed two items in two iterations and its loop is about
\* to end
C31_Witness ==
    /\ frame[1].op = "set_capacity"
    /\ frame[1].n = 2
    /\ frame[1].iterations = 2
    /\ size(container_) <= max_size_

\* C32: find is a lookup followed by a mutation.  When the callers hold one
\* exclusive lock around each call, no caller is ever inside find with an
\* iterator to an erased item, at most one caller is inside a call, and the
\* object is never damaged; only callers that share the object without a lock
\* can reach the state where a find has acted on an item another find erased.
C32_Stale(th) ==
    /\ frame[th].op = "find"
    /\ frame[th].it # NoItem
    /\ Node(container_, frame[th].it) = {}

C32_ExclusiveLock ==
    mutex.used =>
        /\ \A th \in Callers : ~C32_Stale(th)
        /\ \A th \in Callers : frame[th] # Idle => mutex = LockedBy(th)
        /\ kind = "ExpirableContainer"

\* without a lock: both callers looked the same key up, one erased the expired
\* item, and the other's mutation step then ran on the erased node and damaged
\* the container
C32_Witness ==
    /\ mutex = NoMutex
    /\ kind = "corrupted"
    /\ last.op = "find"
    /\ last.n = 1
    /\ size(container_) = 0

\* C33: find<Tag>(key) returns an item whenever a stored item with that key
\* under the index is not expired at the time of the call (the TTL being
\* positive, as the constructor and set_ttl ask).
C33_FindReturnsLive ==
    [][\A tag \in {last'.tag} : \A key \in KeysOf(tag) :
          (/\ last'.op = "find"
           /\ ttl_ > 0
           /\ expirable_find(tag, key)
           /\ \E x \in WithKey(container_, tag, key) : ~Expired(x, ttl_, now))
          => last'.ret # NoItem]_vars

\* C34: erase<Tag>(key) on a non-unique index removes every stored item with
\* that key under the index: size() decreases by their number, none of them is
\* left in the recency list or in any index, the other items stay where they
\* were, and the result is true exactly when there was at least one.
C34_EraseRemovesAll ==
    [][\A tag \in {last'.tag} : \A key \in KeysOf(tag) :
        (/\ last'.op = "erase"
         /\ tag \notin UniqueTags
         /\ erase(tag, key) \/ expirable_erase(tag, key))
        => LET count == Cardinality({i \in 1..Len(container_.seq) :
                                        KeyOf(tag, container_.seq[i]) = key})
           IN  /\ size(container_') = size(container_) - count
               /\ Len(container_'.seq) = Len(container_.seq) - count
               /\ last'.ret = (count >= 1)
               /\ \A x \in Range(container_'.seq) : KeyOf(tag, x) # key
               /\ \A t \in Tags :
                     /\ \A x \in Range(container_'.idx[t]) : KeyOf(tag, x) # key
                     /\ container_'.idx[t] =
                           SelectSeq(container_.idx[t], LAMBDA y : KeyOf(tag, y) # key)
               /\ container_'.seq = SelectSeq(container_.seq, LAMBDA y : KeyOf(tag, y) # key)]_vars

\* one erase by name removed both stored items
C34_Witness ==
    /\ kind = "Container"
    /\ last.op = "erase"
    /\ last.tag = "name"
    /\ last.ret = TRUE
    /\ last.n = 2
    /\ size(container_) = 0

\* C35: an emplace whose item has the id of a stored item A and the email of
\* another stored item B (id is declared before email, both unique) returns
\* false, stores nothing and removes nothing, leaves every payload as it was,
\* and moves A, not B, to the head of the recency list.
C35_DoubleCollision ==
    [][\A v \in {last'.arg} :
        (/\ last'.op = "emplace"
         /\ emplace(v))
        => \A A \in WithKey(container_, "id", v.id) :
           \A B \in WithKey(container_, "email", v.email) \ {A} :
              /\ last'.ret = FALSE
              /\ size(container_') = size(container_)
              /\ Range(container_'.seq) = Range(container_.seq)
              /\ container_'.idx = container_.idx
              /\ container_'.seq = <<A>> \o Remove(container_.seq, A)
              /\ Head(container_'.seq) # B]_vars

\* the emplaced item had the id of the stored item now at the head and the
\* email of the other stored item, which is behind it
C35_Witness ==
    /\ kind = "Container"
    /\ last.op = "emplace"
    /\ last.ret = FALSE
    /\ Len(container_.seq) = 2
    /\ container_.seq[1].id = last.arg.id
    /\ container_.seq[1].email # last.arg.email
    /\ container_.seq[2].email = last.arg.email
    /\ container_.seq[2].id # last.arg.id

\* C36: emplace makes no TTL check.  When the stored item that vetoes the
\* insertion is past its TTL at the time of the call, it is neither erased nor
\* replaced: it is stamped with the time of the call and moved to the head,
\* every other item stays as it was, emplace returns false, and a find by id
\* that follows returns that item, with the payload it had.
C36_EmplaceRevives ==
    [][\A f \in {frame[1]} :
        (/\ f.op = "emplace"
         /\ emplace_return(1)
         /\ ~f.second
         /\ Expired(f.first, ttl_, now))
        => LET revived == [f.first EXCEPT !.last_accessed = now]
           IN  /\ last'.ret = FALSE
               /\ container_'.seq = <<revived>> \o Remove(container_.seq, f.first)
               /\ size(container_') = size(container_)
               /\ container_' = ExpirableContainer_emplace(container_, max_size_, f.v, now).c
               /\ Payload(revived) = Payload(f.first)
               /\ ExpirableContainer_find(container_', ttl_, "id", f.v.id, now).ret = revived]_vars

\* an emplace with the id of an expired item and another email has returned
\* false; the item is at the head with its old email and the time of the call
C36_Witness ==
    /\ last.op = "emplace"
    /\ "first" \in DOMAIN last
    /\ last.ret = FALSE
    /\ Expired(last.first, ttl_, last.now)
    /\ last.first.value.email # last.arg.email
    /\ container_.seq # <<>>
    /\ Head(container_.seq) = [last.first EXCEPT !.last_accessed = last.now]

\* the stored items a step removes
C37_Evicted == {x \in Stored : \A y \in Range(container_'.seq) : Payload(y) # Payload(x)}

\* C37: when an emplace that overflows or a set_capacity that shrinks removes
\* an item from an ExpirableContainer, no item that stays stored has a smaller
\* last_accessed than the removed one; so if the removed item was not expired,
\* no expired item stays.
C37_EvictsOldestStamp ==
    [][\A v \in {last'.arg} : \A n \in {max_size_'} :
        (\/ last'.op = "emplace" /\ expirable_emplace(v)
         \/ last'.op = "set_capacity" /\ expirable_set_capacity(n))
        => \A x \in C37_Evicted : \A y \in Range(container_'.seq) :
              /\ y.last_accessed >= x.last_accessed
              /\ ~Expired(x, ttl_, now) => ~Expired(y, ttl_, now)]_vars

\* an emplace into a full ExpirableContainer of capacity 2 evicted the tail;
\* the item kept behind the new one is itself expired
C37_Witness ==
    /\ kind = "ExpirableContainer"
    /\ last.op = "emplace"
    /\ last.ret = TRUE
    /\ last.n = 2
    /\ max_size_ = 2
    /\ Len(container_.seq) = 2
    /\ Expired(container_.seq[2], ttl_, now)
    /\ ttl_ > 0

\* the stored items a step removes
C38_Removed == {x \in Stored : \A y \in Range(container_'.seq) : Payload(y) # Payload(x)}

\* C38: an item that find, contains, equal_range or cleanup_expired removes was
\* expired and is then in no index: find_no_update and equal_range_no_update
\* do not return it by any of its keys.  An id that is not stored becomes
\* stored only by an emplace that returns true, whatever set_ttl does.  An
\* item past its TTL that is still stored is kept by a set_ttl, and if the new
\* ttl makes now <= last_accessed + ttl, find by its id returns it.
C38_ExpiredForGood ==
    [][/\ last'.op \in {"find", "contains", "equal_range", "cleanup_expired"} =>
             \A x \in C38_Removed :
                /\ Expired(x, ttl_, now)
                /\ \A t \in Tags :
                      /\ \A y \in Range(container_'.idx[t]) : Payload(y) # Payload(x)
                      /\ ExpirableContainer_find_no_update(container_', t, KeyOf(t, x)).ret
                            \notin {x, [x EXCEPT !.last_accessed = now]}
                      /\ \A y \in Range(ExpirableContainer_equal_range_no_update(
                                             container_', t, KeyOf(t, x)).ret) :
                            Payload(y) # Payload(x)
       /\ \A id \in Ids :
             (WithKey(container_, "id", id) = {} /\ WithKey(container_', "id", id) # {})
             => /\ last'.op = "emplace"
                /\ last'.ret = TRUE
                /\ last'.arg.id = id
       /\ \A d \in {ttl_'} :
             (last'.op = "set_ttl" /\ set_ttl(d) /\ kind' = "ExpirableContainer")
             => /\ container_' = container_
                /\ \A x \in Stored :
                      (Expired(x, ttl_, now) /\ ~Expired(x, d, now))
                      => ExpirableContainer_find(container_', d, "id", KeyOf("id", x), now).ret
                            = [x EXCEPT !.last_accessed = now]]_vars

\* a find has removed an expired item: it returned none and size() went down
C38_Witness ==
    /\ kind = "ExpirableContainer"
    /\ last.op = "find"
    /\ last.ret = NoItem
    /\ last.n = size(container_) + 1
    /\ ttl_ > 0

====
